---- MODULE Spec2Model ----
\* i2c.c: a bit-bang I2C master on top of an FTDI MPSSE engine.
\* The program (main, ftdi_configure_i2c, i2c_transaction and the primitives
\* they call) is modelled together with the transport it talks to: FT_Write
\* hands command bytes to an MPSSE engine that drives SDA/SCL and a slave
\* population, FT_Read takes response bytes out of the engine's receive queue.
\* Spec is the program, from main's entry to its exit; LineSpec runs
\* i2c_start_bk, i2c_stop_bk and execute on their own.
EXTENDS Integers, Sequences, FiniteSets, TLC

\* ------------------------------------------------------------------ bounds
\* longest write payload given on the command line
MaxWrite == 2
\* a transport call can fail only among the first MaxFaultOp calls of a run
MaxFaultOp == 19
\* largest repeat factor the start and stop sequences are built with
MaxRepeat == 42

\* ------------------------------------------------------- program constants
SLAVE_NAK_ADDR == -2
SLAVE_NAK_DATA == -3
SCL == 1
SDA_OUT == 2
SDA_IN == 4
MSB_FALLING_EDGE_CLOCK_BYTE_OUT == 17
MSB_FALLING_EDGE_CLOCK_BIT_OUT == 19
MSB_FALLING_EDGE_CLOCK_BYTE_IN == 32
MSB_RISING_EDGE_CLOCK_BIT_IN == 34
SET_BITS_LOW_BYTE == 128
SEND_IMMEDIATE == 135
DISABLE_LOOPBACK == 133
SET_CLK_DIV == 134
DISABLE_CLK_DIV_5 == 138
ENABLE_3_PHASE_CLK == 140
DISABLE_ADAPTIVE_CLK == 151
OPEN_DRAIN == 158
\* sizeof(outputBuffer)
BufSize == 1024
\* int repeat = 40 in i2c_start_bk and i2c_stop_bk
Repeat == 40
\* the scan loop with its bound off by one: i <= 0x7f
ScanLimit_inclusive == 127 + 1
\* for(i=0; i<0x7f; i++)
ScanLimit == 127
\* FT_STATUS of ftd2xx.h: FT_OK, and one of the values that are not FT_OK
FT_OK == 0
FT_IO_ERROR == FT_OK + 4

\* ------------------------------------------------------------ C arithmetic
BitAt(v, k) == (v \div (2^k)) % 2

RECURSIVE BitOrN(_, _, _)
BitOrN(a, b, n) ==
    IF n = 0 THEN 0
    ELSE (IF a % 2 = 1 \/ b % 2 = 1 THEN 1 ELSE 0)
         + 2 * BitOrN(a \div 2, b \div 2, n - 1)

RECURSIVE BitAndN(_, _, _)
BitAndN(a, b, n) ==
    IF n = 0 THEN 0
    ELSE (IF a % 2 = 1 /\ b % 2 = 1 THEN 1 ELSE 0)
         + 2 * BitAndN(a \div 2, b \div 2, n - 1)

\* a | b and a & b on non-negative ints that fit 16 bits
BitOr(a, b) == BitOrN(a, b, 16)
BitAnd(a, b) == BitAndN(a, b, 16)

\* conversion of an int to unsigned char
UChar(v) == v % 256

READ(addr) == BitOr(addr * 2, 1)
WRITE(addr) == BitOr(addr * 2, 0)

\* case 'a' of main: (unsigned char)strtoul(optarg), then &= 0x7F
ParseAddr(a) == BitAnd(UChar(a), 127)

\* ------------------------------------------------------------------- state
VARIABLES
    pc,            \* position in main / i2c_transaction
    i,             \* loop counter of the scan loop and of the payload loop
    slave_addr,    \* main's slave_addr (-1 when no -a option was given)
    nread,         \* main's nread (-r)
    wbuf,          \* main's write payload; nwrite is its length
    i2c_scan,      \* -s
    speed_khz,     \* -1 / -4
    outputBuffer,  \* outputBuffer[0..outputSize-1]
    inputBuffer,   \* the bytes of inputBuffer written so far
    inputRead,
    ftStatus,
    ret,           \* what i2c_transaction returned
    exit_code,     \* the process's exit status
    out,           \* stdout: the bytes dump_hex printed
    reported,      \* stderr: addresses printed as "Slave ACKed address"
    dev,           \* MPSSE engine: pending command bytes, receive queue, lines
    bus,           \* what happened on the I2C bus, in order
    lastWrite,     \* the bytes of the latest FT_Write
    calls,         \* the FT_Write / FT_Read calls of the latest step, in order
    call_rv,       \* what the primitive the latest step called returned
    nOps,          \* number of FT_Write / FT_Read calls so far
    failAt,        \* the transport call that fails (0: none)
    txnMark,       \* length of bus when i2c_transaction was entered
    faultPc,       \* where the program was when that call failed
    setup_fault,   \* the open/setup call of ftdi_configure_i2c that failed
    ackers,        \* the 7-bit addresses of the slaves on the bus
    repeat         \* the local repeat of i2c_start_bk and i2c_stop_bk

vars == <<pc, i, slave_addr, nread, wbuf, i2c_scan, speed_khz, outputBuffer,
          inputBuffer, inputRead, ftStatus, ret, exit_code, out, reported,
          dev, bus, lastWrite, calls, call_rv, nOps, failAt, txnMark, faultPc,
          setup_fault, ackers, repeat>>

nwrite == Len(wbuf)

\* The globals and the transport the primitives work on, as one record.
Machine ==
    [outputBuffer |-> outputBuffer, inputBuffer |-> inputBuffer,
     inputRead |-> inputRead, ftStatus |-> ftStatus, rv |-> 0, erv |-> 0,
     calls |-> << >>,
     inq |-> dev.inq, rxq |-> dev.rxq, sda |-> dev.sda, scl |-> dev.scl,
     nIn |-> dev.nIn, cfg |-> dev.cfg,
     bus |-> bus, lastWrite |-> lastWrite, nOps |-> nOps, faultPc |-> faultPc]

Commit(g) ==
    /\ outputBuffer' = g.outputBuffer
    /\ inputBuffer' = g.inputBuffer
    /\ inputRead' = g.inputRead
    /\ ftStatus' = g.ftStatus
    /\ dev' = [inq |-> g.inq, rxq |-> g.rxq, sda |-> g.sda, scl |-> g.scl,
               nIn |-> g.nIn, cfg |-> g.cfg]
    /\ bus' = g.bus
    /\ lastWrite' = g.lastWrite
    /\ calls' = g.calls
    /\ nOps' = g.nOps
    /\ faultPc' = g.faultPc

\* ------------------------------------------------------------ MPSSE engine
\* The level of a line: an output drives its value, an input floats high.
Level(v, d, k) == IF BitAt(d, k) = 1 THEN BitAt(v, k) ELSE 1

\* start is a falling edge on SDA while SCL high, stop a rising edge
LineEvents(sda, scl, nsda, nscl) ==
    IF scl = 1 /\ nscl = 1 /\ sda = 1 /\ nsda = 0 THEN << <<"S", 0>> >>
    ELSE IF scl = 1 /\ nscl = 1 /\ sda = 0 /\ nsda = 1 THEN << <<"P", 0>> >>
    ELSE << >>

\* sb for an address byte: the slave that owns the address does not answer
\* this time (it is busy, or does not serve the direction asked for)
NoAnswer == 256

\* The response byte of the one-bit clock-in after the byte just clocked out;
\* its low bit is the acknowledge bit the bus shows. An address byte (the
\* byte right after a Start) is acknowledged by the slave that owns the
\* address unless sb is NoAnswer; a data byte as the addressed slave
\* decides: sb is the response byte, whose upper bits are whatever the
\* engine's shift register held.
SlaveAckBit(log, sb) ==
    LET n == Len(log) IN
    IF n >= 2 /\ log[n][1] = "W" /\ log[n - 1][1] = "S"
    THEN IF (log[n][2] \div 2) \in ackers /\ sb # NoAnswer THEN 0 ELSE 1
    ELSE sb

\* The k-th byte (0-based) the slave returns when read: 0xAB, 0xAC, ...
SlaveByte(k) == (171 + k) % 256

\* Number of bytes of the command that starts at q[p]; commands with a
\* length field need the field to be there.
CmdLen(q, p) ==
    LET op == q[p] IN
    IF op = SET_BITS_LOW_BYTE \/ op = SET_CLK_DIV \/ op = OPEN_DRAIN
       \/ op = MSB_FALLING_EDGE_CLOCK_BIT_OUT \/ op = MSB_FALLING_EDGE_CLOCK_BYTE_IN
    THEN 3
    ELSE IF op = MSB_RISING_EDGE_CLOCK_BIT_IN THEN 2
    ELSE IF op = MSB_FALLING_EDGE_CLOCK_BYTE_OUT
    THEN (IF p + 2 > Len(q) THEN 4 ELSE 4 + q[p + 1] + 256 * q[p + 2])
    ELSE 1

\* One complete command at q[p], executed by the engine.
MpsseExec(g, q, p, sb) ==
    LET op == q[p] IN
    IF op = SET_BITS_LOW_BYTE THEN
        LET nsda == Level(q[p + 1], q[p + 2], 1)
            nscl == Level(q[p + 1], q[p + 2], 0)
        IN [g EXCEPT !.sda = nsda, !.scl = nscl,
                     !.bus = @ \o LineEvents(g.sda, g.scl, nsda, nscl)]
    ELSE IF op = MSB_FALLING_EDGE_CLOCK_BYTE_OUT THEN
        LET n == q[p + 1] + 256 * q[p + 2] + 1 IN
        [g EXCEPT !.scl = 0, !.sda = q[p + 2 + n] % 2,
                  !.bus = @ \o [k \in 1..n |-> <<"W", q[p + 2 + k]>>]]
    ELSE IF op = MSB_FALLING_EDGE_CLOCK_BIT_OUT THEN
        LET n == q[p + 1] + 1 IN
        [g EXCEPT !.scl = 0, !.sda = BitAt(q[p + 2], 8 - n),
                  !.bus = @ \o [k \in 1..n |-> <<"M", BitAt(q[p + 2], 8 - k)>>]]
    ELSE IF op = MSB_FALLING_EDGE_CLOCK_BYTE_IN THEN
        LET n == q[p + 1] + 256 * q[p + 2] + 1
            got == [k \in 1..n |-> SlaveByte(g.nIn + k - 1)]
        IN [g EXCEPT !.scl = 0, !.nIn = @ + n, !.rxq = @ \o got,
                     !.bus = @ \o [k \in 1..n |-> <<"R", got[k]>>]]
    ELSE IF op = MSB_RISING_EDGE_CLOCK_BIT_IN THEN
        LET byte == SlaveAckBit(g.bus, sb) IN
        [g EXCEPT !.scl = 0, !.rxq = Append(@, byte),
                  !.bus = Append(@, <<"A", byte % 2>>)]
    ELSE IF op = SEND_IMMEDIATE THEN g
    ELSE IF op = DISABLE_LOOPBACK \/ op = DISABLE_CLK_DIV_5
            \/ op = ENABLE_3_PHASE_CLK \/ op = DISABLE_ADAPTIVE_CLK
    THEN [g EXCEPT !.cfg = @ \cup {<<op, 0, 0>>}]
    ELSE IF op = SET_CLK_DIV \/ op = OPEN_DRAIN
    THEN [g EXCEPT !.cfg = @ \cup {<<op, q[p + 1], q[p + 2]>>}]
    ELSE \* bad command: the engine answers 0xFA and the opcode
         [g EXCEPT !.rxq = @ \o <<250, op>>]

\* The engine executes the complete commands of its pending bytes, in order
\* (at most n of them, from g.pos on), and keeps an incomplete last command
\* until more bytes arrive. The recursion halves n to stay shallow.
RECURSIVE MpsseCmds(_, _, _)
MpsseCmds(g, n, sb) ==
    LET q == g.inq
        p == g.pos
    IN IF p > Len(q) THEN g
       ELSE IF n <= 1
       THEN LET len == CmdLen(q, p) IN
            IF p + len - 1 > Len(q) THEN g
            ELSE [MpsseExec(g, q, p, sb) EXCEPT !.pos = p + len]
       ELSE LET h == MpsseCmds(g, n \div 2, sb) IN
            \* (the test only makes h be computed before it is passed on)
            IF h.pos > 0 THEN MpsseCmds(h, n - (n \div 2), sb) ELSE h

MpsseRun(g, sb) ==
    LET e == [inq |-> g.inq, pos |-> 1, rxq |-> g.rxq, sda |-> g.sda,
              scl |-> g.scl, nIn |-> g.nIn, cfg |-> g.cfg, bus |-> g.bus]
        r == MpsseCmds(e, Len(g.inq), sb)
    IN [g EXCEPT !.inq = SubSeq(r.inq, r.pos, Len(r.inq)), !.rxq = r.rxq,
                 !.sda = r.sda, !.scl = r.scl, !.nIn = r.nIn, !.cfg = r.cfg,
                 !.bus = r.bus]

\* --------------------------------------------------------------- transport
\* FT_Write: the failAt-th transport call fails and sends nothing. The
\* status it returns is ftStatus (execute assigns it) and erv (execute
\* returns it).
FT_Write(g, bytes, sb) ==
    LET k == g.nOps + 1 IN
    IF k = failAt
    THEN [g EXCEPT !.nOps = k, !.ftStatus = FT_IO_ERROR, !.lastWrite = bytes,
                   !.erv = FT_IO_ERROR,
                   !.calls = Append(@, <<"FT_Write", bytes, FT_IO_ERROR>>),
                   !.faultPc = pc]
    ELSE MpsseRun([g EXCEPT !.nOps = k, !.ftStatus = FT_OK, !.erv = FT_OK,
                            !.calls = Append(@, <<"FT_Write", bytes, FT_OK>>),
                            !.lastWrite = bytes, !.inq = @ \o bytes], sb)

\* FT_Read of n bytes: what the receive queue holds, at most n (the read
\* times out when fewer are there); a failed call returns no byte.
FT_Read(g, n) ==
    LET k == g.nOps + 1
        m == IF n < Len(g.rxq) THEN n ELSE Len(g.rxq)
        got == SubSeq(g.rxq, 1, m)
    IN IF k = failAt
       THEN [g EXCEPT !.nOps = k, !.ftStatus = FT_IO_ERROR, !.inputRead = 0,
                      !.calls = Append(@, <<"FT_Read", <<n>>, FT_IO_ERROR>>),
                      !.faultPc = pc]
       ELSE [g EXCEPT !.nOps = k, !.ftStatus = FT_OK, !.inputRead = m,
                      !.calls = Append(@, <<"FT_Read", <<n>>, FT_OK>>),
                      !.rxq = SubSeq(@, m + 1, Len(@)),
                      !.inputBuffer = got \o SubSeq(@, m + 1, Len(@))]

\* ---------------------------------------------------------- command buffer
append(buf, data) ==
    IF Len(buf) >= BufSize - 1 THEN buf ELSE Append(buf, data)

\* what append(data) returns when the buffer is buf
append_rv(buf, data) == IF Len(buf) >= BufSize - 1 THEN -1 ELSE 0

\* execute keeping the buffer when the write fails
execute_keep_on_failure(g, sb) ==
    IF Len(g.outputBuffer) = 0 THEN [g EXCEPT !.erv = 0]
    ELSE [FT_Write(g, g.outputBuffer, sb) EXCEPT
              !.outputBuffer = IF g.nOps + 1 = failAt THEN @ ELSE << >>]

\* execute(); erv is its return value
execute(g, sb) ==
    IF Len(g.outputBuffer) = 0 THEN [g EXCEPT !.erv = 0]
    ELSE [FT_Write(g, g.outputBuffer, sb) EXCEPT !.outputBuffer = << >>]

\* append filling the array to its last element
append_seq_whole_array(buf, s) ==
    LET room == IF Len(buf) >= BufSize THEN 0 ELSE BufSize - Len(buf)
    IN IF Len(s) <= room THEN buf \o s ELSE buf \o SubSeq(s, 1, room)

\* append() called for each byte of s in turn: the bytes that find the
\* buffer full are dropped
append_seq(buf, s) ==
    LET room == IF Len(buf) >= BufSize - 1 THEN 0 ELSE BufSize - 1 - Len(buf)
    IN IF Len(s) <= room THEN buf \o s ELSE buf \o SubSeq(s, 1, room)

\* the three bytes set_bits(data) appends
set_bits_cmd(data) == <<SET_BITS_LOW_BYTE, data, BitOr(SDA_OUT, SCL)>>

set_bits(buf, data) == append_seq(buf, set_bits_cmd(data))

\* for (i=0; i<repeat; i++) set_bits(data): the bytes appended
set_bits_n(data, r) ==
    [k \in 1..(3 * r) |-> set_bits_cmd(data)[((k - 1) % 3) + 1]]

\* the bytes i2c_start_bk appends: SDA high SCL high, SDA low SCL high,
\* SDA low SCL low
i2c_start_cmds(r) ==
    set_bits_n(BitOr(SDA_OUT, SCL), r) \o set_bits_n(SCL, r) \o set_bits_n(0, r)
start_cmds == i2c_start_cmds(Repeat)

\* the stop sequence releasing SDA before it raises SCL
i2c_stop_cmds_sda_first(r) ==
    set_bits_n(0, r) \o set_bits_n(SDA_OUT, r) \o set_bits_n(BitOr(SDA_OUT, SCL), r)

\* the bytes i2c_stop_bk appends: SDA low SCL low, SDA low SCL high,
\* SDA high SCL high
i2c_stop_cmds(r) ==
    set_bits_n(0, r) \o set_bits_n(SCL, r) \o set_bits_n(BitOr(SDA_OUT, SCL), r)
stop_cmds == i2c_stop_cmds(Repeat)

\* i2c_start_bk without its second phase: SDA and SCL fall together
i2c_start_bk_no_edge(buf) ==
    append_seq(buf, set_bits_n(BitOr(SDA_OUT, SCL), Repeat) \o set_bits_n(0, Repeat))

i2c_start_bk(buf) == append_seq(buf, start_cmds)

\* i2c_stop_bk without its last phase: SDA is never released
i2c_stop_bk_no_edge(buf) ==
    append_seq(buf, set_bits_n(0, Repeat) \o set_bits_n(SCL, Repeat))

i2c_stop_bk(buf) == append_seq(buf, stop_cmds)

\* what i2c_send_bk queues before its first execute
send_cmds(buf, data) ==
    append_seq(buf, <<MSB_FALLING_EDGE_CLOCK_BYTE_OUT, 0, 0, data>>
                    \o set_bits_cmd(SDA_OUT)
                    \o <<MSB_RISING_EDGE_CLOCK_BIT_IN, 0, SEND_IMMEDIATE>>)

\* i2c_send_bk testing the wrong bit of the response: a Nak passes for an Ack
i2c_send_bk_wrong_bit(g, data, sb) ==
    LET g1 == execute([g EXCEPT !.outputBuffer = send_cmds(@, data)], sb)
        g2 == FT_Read(g1, 1)
    IN IF g2.ftStatus # FT_OK \/ g2.inputRead = 0 THEN [g2 EXCEPT !.rv = -2]
       ELSE IF BitAnd(g2.inputBuffer[1], 2) # 0 THEN [g2 EXCEPT !.rv = -1]
       ELSE [execute([g2 EXCEPT !.outputBuffer = set_bits(@, SDA_OUT)], sb)
                EXCEPT !.rv = 0]

\* i2c_send_bk testing the whole response byte instead of its low bit
i2c_send_bk_no_mask(g, data, sb) ==
    LET g1 == execute([g EXCEPT !.outputBuffer = send_cmds(@, data)], sb)
        g2 == FT_Read(g1, 1)
    IN IF g2.ftStatus # FT_OK \/ g2.inputRead = 0 THEN [g2 EXCEPT !.rv = -2]
       ELSE IF g2.inputBuffer[1] # 0 THEN [g2 EXCEPT !.rv = -1]
       ELSE [execute([g2 EXCEPT !.outputBuffer = set_bits(@, SDA_OUT)], sb)
                EXCEPT !.rv = 0]

\* i2c_send_bk reporting a Nak as success
i2c_send_bk_nak_as_ack(g, data, sb) ==
    LET g1 == execute([g EXCEPT !.outputBuffer = send_cmds(@, data)], sb)
        g2 == FT_Read(g1, 1)
    IN IF g2.ftStatus # FT_OK \/ g2.inputRead = 0 THEN [g2 EXCEPT !.rv = -2]
       ELSE IF BitAnd(g2.inputBuffer[1], 1) # 0 THEN [g2 EXCEPT !.rv = 0]
       ELSE [execute([g2 EXCEPT !.outputBuffer = set_bits(@, SDA_OUT)], sb)
                EXCEPT !.rv = 0]

\* i2c_send_bk(data): rv is 0 on Ack, -1 on Nak, -2 on a failed read
i2c_send_bk(g, data, sb) ==
    LET g1 == execute([g EXCEPT !.outputBuffer = send_cmds(@, data)], sb)
        g2 == FT_Read(g1, 1)
    IN IF g2.ftStatus # FT_OK \/ g2.inputRead = 0 THEN [g2 EXCEPT !.rv = -2]
       ELSE IF BitAnd(g2.inputBuffer[1], 1) # 0 THEN [g2 EXCEPT !.rv = -1]
       ELSE [execute([g2 EXCEPT !.outputBuffer = set_bits(@, SDA_OUT)], sb)
                EXCEPT !.rv = 0]

\* the six bytes iteration i of read_bytes' loop appends
read_group(k, nbytes) ==
    <<MSB_FALLING_EDGE_CLOCK_BYTE_IN, 0, 0, MSB_FALLING_EDGE_CLOCK_BIT_OUT, 0,
      IF k = nbytes - 1 THEN 128 ELSE 0>>

\* what read_bytes queues: the groups of i = 0 .. nbytes-1, SEND_IMMEDIATE
read_cmds(buf, nbytes) ==
    append_seq(buf,
        [k \in 1..(6 * nbytes) |-> read_group((k - 1) \div 6, nbytes)[((k - 1) % 6) + 1]]
        \o <<SEND_IMMEDIATE>>)

read_bytes(g, nbytes) ==
    IF nbytes <= 0 THEN [g EXCEPT !.rv = -1]
    ELSE LET g1 == execute([g EXCEPT !.outputBuffer = read_cmds(@, nbytes)], 0)
         IN [FT_Read(g1, nbytes) EXCEPT !.rv = 0]

\* dump_hex(inputBuffer, inputRead)
dump_hex(buf, len) == SubSeq(buf, 1, len)

\* the divisor chosen with every speed but 100 kHz taken for 400 kHz
dwClockDivisor_fast_default(speed) == IF speed = 100 THEN 299 ELSE 74

\* lines 315-322: 0x004A for 400 kHz, 0x012B for everything else
dwClockDivisor(speed) == IF speed = 400 THEN 74 ELSE 299

\* the status read of the receive queue with its result dropped
PurgeStatus_ignore_queue(reset, queue) == reset

\* lines 341-344: ftStatus = FT_ResetDevice(); ftStatus |= FT_GetQueueStatus()
PurgeStatus(reset, queue) == BitOr(reset, queue)

\* ftdi_configure_i2c(serial_num, speed_khz); bad names the FT_OpenEx /
\* FT_ResetDevice / FT_GetQueueStatus / FT_SetUSBParameters / FT_SetChars /
\* FT_SetTimeouts / FT_SetLatencyTimer / FT_SetBitMode / FT_SetBitMode call
\* (1..9) that returns an error, 0 when none does. rv is the return value.
ftdi_configure_i2c(g, speed, bad) ==
    LET st(k) == IF bad = k THEN FT_IO_ERROR ELSE FT_OK
        s2 == PurgeStatus(st(2), st(3))
        g1 == IF s2 = FT_OK /\ Len(g.rxq) > 0
              THEN [FT_Read(g, Len(g.rxq)) EXCEPT !.ftStatus = s2]
              ELSE [g EXCEPT !.ftStatus = s2]
        s9 == BitOr(BitOr(BitOr(BitOr(BitOr(BitOr(s2, st(4)), st(5)), st(6)),
                                st(7)), st(8)), st(9))
        c1 == execute([g1 EXCEPT !.ftStatus = s9,
                  !.outputBuffer = append_seq(@, <<DISABLE_CLK_DIV_5,
                                   DISABLE_CLK_DIV_5, ENABLE_3_PHASE_CLK>>)], 1)
        c2 == execute([c1 EXCEPT
                  !.outputBuffer = append_seq(@, <<SET_BITS_LOW_BYTE,
                      BitOr(SDA_OUT, SCL), BitOr(SDA_OUT, SCL), SET_CLK_DIV,
                      BitAnd(dwClockDivisor(speed), 255),
                      BitAnd(dwClockDivisor(speed) \div 256, 255)>>)], 1)
        c3 == execute([c2 EXCEPT
                  !.outputBuffer = append_seq(@, <<OPEN_DRAIN,
                                   BitOr(SDA_OUT, SCL), 0>>)], 1)
        c4 == execute([c3 EXCEPT
                  !.outputBuffer = append(@, DISABLE_LOOPBACK)], 1)
    IN IF st(1) # FT_OK THEN [g EXCEPT !.ftStatus = st(1), !.rv = -1]
       ELSE IF s9 # FT_OK THEN [g1 EXCEPT !.ftStatus = s9, !.rv = -1]
       ELSE [c4 EXCEPT !.rv = 0]

\* ------------------------------------------------------------ command line
\* -a arguments tried: 0x3C, and 0xBC whose top bit is set
AddrArgs == {60, 188}
\* the largest read length whose commands fit the command buffer
MaxFit == (BufSize - 2) \div 6
\* -r arguments tried
ReadLens == {-1, 0, 1, 2, MaxFit, MaxFit + 1}
\* write payloads tried: prefixes of 0x12 0x34 0x56 ...
Payload(n) == [k \in 1..n |-> (18 + 34 * (k - 1)) % 256]
Payloads == {Payload(n) : n \in 0..MaxWrite}
\* slave populations tried
Buses == {{}, {60}, {60, 127}}

Options ==
    \* a transaction, no scan
    [addr : {ParseAddr(a) : a \in AddrArgs}, scan : {FALSE}, nread : ReadLens,
     wbuf : Payloads, speed : {100}, ackers : {{}, {60}}, failAt : 0..MaxFaultOp,
     stale : {<< >>}]
    \cup
    \* a bus scan without an address, with or without a read
    [addr : {-1}, scan : {TRUE}, nread : {0, 1}, wbuf : {<< >>},
     speed : {100}, ackers : Buses, failAt : {0}, stale : {<< >>}]
    \cup
    \* a bus scan, then a read transaction
    [addr : {60}, scan : {TRUE}, nread : {1}, wbuf : {<< >>},
     speed : {100}, ackers : {{60}}, failAt : {0}, stale : {<< >>}]
    \cup
    \* a bus scan on a failing transport
    [addr : {-1}, scan : {TRUE}, nread : {0}, wbuf : {<< >>},
     speed : {100}, ackers : {{60}}, failAt : 1..MaxFaultOp, stale : {<< >>}]
    \cup
    \* no address and no scan; the other clock rate main passes (-4), and a
    \* speed_khz that only another caller of ftdi_configure_i2c would pass
    [addr : {-1, 60}, scan : {FALSE}, nread : {1}, wbuf : {<< >>},
     speed : {100, 400, 50}, ackers : {{60}}, failAt : {0}, stale : {<< >>}]
    \cup
    \* a byte left in the receive queue by an earlier run, its drain working
    \* or failing
    [addr : {60}, scan : {FALSE}, nread : {1}, wbuf : {<< >>},
     speed : {100}, ackers : {{60}}, failAt : {0, 1}, stale : {<<85>>}]

Init ==
    \E o \in Options :
        /\ pc = "main"
        /\ i = 0
        /\ slave_addr = o.addr
        /\ nread = o.nread
        /\ wbuf = o.wbuf
        /\ i2c_scan = o.scan
        /\ speed_khz = o.speed
        /\ outputBuffer = << >>
        /\ inputBuffer = << >>
        /\ inputRead = 0
        /\ ftStatus = FT_OK
        /\ ret = 1
        /\ exit_code = 0
        /\ out = << >>
        /\ reported = << >>
        /\ dev = [inq |-> << >>, rxq |-> o.stale, sda |-> 1, scl |-> 1,
                  nIn |-> 0, cfg |-> {}]
        /\ bus = << >>
        /\ lastWrite = << >>
        /\ calls = << >>
        /\ call_rv = 0
        /\ nOps = 0
        /\ failAt = o.failAt
        /\ txnMark = 0
        /\ faultPc = "none"
        /\ setup_fault = 0
        /\ ackers = o.ackers
        /\ repeat = Repeat

Args == <<slave_addr, nread, wbuf, i2c_scan, speed_khz, failAt, ackers,
          repeat>>
\* what only ftdi_configure_i2c sets
Setup == <<setup_fault>>
Transport == <<outputBuffer, inputBuffer, inputRead, ftStatus, dev, bus,
               lastWrite, calls, nOps, faultPc>>

\* ----------------------------------------------------------------- actions
\* main, lines 606-649: usage() when there is neither an address nor a scan;
\* exit(-1) when no FTDI device was found.
MainArgs ==
    /\ pc = "main"
    /\ \E found \in BOOLEAN :
        IF slave_addr < 0 /\ ~i2c_scan THEN pc' = "exit" /\ exit_code' = 1
        ELSE IF ~found THEN pc' = "exit" /\ exit_code' = -1
        ELSE pc' = "configure" /\ exit_code' = exit_code
    /\ UNCHANGED <<i, ret, out, reported, txnMark, call_rv, Args, Setup, Transport>>

\* the number, among the open/setup calls, of FT_GetQueueStatus
GetQueueStatusCall == 3

\* main, lines 651-656
Configure ==
    /\ pc = "configure"
    /\ \E bad \in 0..9 :
        LET g == ftdi_configure_i2c(Machine, speed_khz, bad) IN
        /\ Commit(g)
        /\ call_rv' = g.rv
        /\ setup_fault' = bad
        /\ IF g.rv # 0 THEN pc' = "exit" /\ exit_code' = 1
           ELSE pc' = (IF i2c_scan THEN "scan" ELSE "t_write")
                /\ exit_code' = exit_code
    /\ i' = 0
    /\ UNCHANGED <<ret, out, reported, txnMark, Args>>

\* the scan reporting the addresses that did not answer
scan_report_inverted(rep, rv, a) == IF rv = 0 THEN rep ELSE Append(rep, UChar(a))

\* main, lines 665-671: stderr after the probe of address a returned rv
scan_report(rep, rv, a) == IF rv # 0 THEN rep ELSE Append(rep, UChar(a))

\* main, lines 659-675: one iteration of the scan loop, or its end
ScanProbe ==
    /\ pc = "scan"
    /\ IF i < ScanLimit
       THEN LET g0 == Machine
                g1 == i2c_send_bk([g0 EXCEPT !.outputBuffer = i2c_start_bk(@)],
                                  UChar(READ(i)), 1)
                g2 == execute([g1 EXCEPT !.outputBuffer = i2c_stop_bk(@)], 1)
            IN /\ Commit(g2)
               /\ call_rv' = g1.rv
               /\ reported' = scan_report(reported, g1.rv, i)
               /\ i' = i + 1
               /\ pc' = pc
       ELSE /\ pc' = "t_write"
            /\ i' = 0
            /\ UNCHANGED <<reported, call_rv, Transport>>
    /\ UNCHANGED <<ret, exit_code, out, txnMark, Args, Setup>>

\* i2c_transaction, lines 418-437
TxnWriteAddr ==
    /\ pc = "t_write"
    /\ IF nwrite # 0
       THEN LET g1 == i2c_send_bk([Machine EXCEPT !.outputBuffer = i2c_start_bk(@)],
                                  UChar(WRITE(UChar(slave_addr))), 1)
                g2 == execute([g1 EXCEPT !.outputBuffer = i2c_stop_bk(@)], 1)
            IN /\ call_rv' = g1.rv
               /\ IF g1.rv # 0
                  THEN Commit(g2) /\ ret' = SLAVE_NAK_ADDR /\ pc' = "t_done"
                  ELSE Commit(g1) /\ ret' = ret /\ pc' = "t_data"
       ELSE pc' = "t_read" /\ UNCHANGED <<ret, call_rv, Transport>>
    /\ i' = 0
    /\ txnMark' = Len(bus)
    /\ UNCHANGED <<exit_code, out, reported, Args, Setup>>

\* the response bytes a slave answers a payload byte with: Ack, Nak, and an
\* Ack under upper bits that are set
AckBytes == {0, 1, 254}

\* i2c_transaction, lines 440-453: one iteration of the payload loop, or its
\* end; sb is the response byte of the slave's acknowledge
TxnWriteData ==
    /\ pc = "t_data"
    /\ IF i < nwrite
       THEN \E sb \in AckBytes :
            LET g1 == i2c_send_bk(Machine, wbuf[i + 1], sb)
                g2 == execute([g1 EXCEPT !.outputBuffer = i2c_stop_bk(@)], 1)
            IN /\ call_rv' = g1.rv
               /\ IF g1.rv # 0
                  THEN Commit(g2) /\ ret' = SLAVE_NAK_DATA /\ pc' = "t_done" /\ i' = i
                  ELSE Commit(g1) /\ ret' = ret /\ pc' = pc /\ i' = i + 1
       ELSE pc' = "t_read" /\ UNCHANGED <<i, ret, call_rv, Transport>>
    /\ UNCHANGED <<exit_code, out, reported, txnMark, Args, Setup>>

\* i2c_transaction, lines 455-474; the slave may leave the READ address
\* unanswered (sb)
TxnReadAddr ==
    /\ pc = "t_read"
    /\ IF nread # 0
       THEN \E sb \in {1, NoAnswer} :
            LET g1 == i2c_send_bk([Machine EXCEPT !.outputBuffer = i2c_start_bk(@)],
                                  UChar(READ(UChar(slave_addr))), sb)
                g2 == execute([g1 EXCEPT !.outputBuffer = i2c_stop_bk(@)], 1)
            IN /\ call_rv' = g1.rv
               /\ IF g1.rv # 0
                  THEN Commit(g2) /\ ret' = SLAVE_NAK_ADDR /\ pc' = "t_done"
                  ELSE Commit(g1) /\ ret' = ret /\ pc' = "t_readbytes"
       ELSE pc' = "t_stop" /\ UNCHANGED <<ret, call_rv, Transport>>
    /\ UNCHANGED <<i, exit_code, out, reported, txnMark, Args, Setup>>

\* i2c_transaction, lines 476-484: read_bytes(nread), its result ignored,
\* then dump_hex(inputBuffer, inputRead)
TxnReadBytes ==
    /\ pc = "t_readbytes"
    /\ LET g == read_bytes(Machine, nread) IN
        /\ Commit(g)
        /\ call_rv' = g.rv
        /\ out' = out \o dump_hex(g.inputBuffer, g.inputRead)
    /\ pc' = "t_stop"
    /\ UNCHANGED <<i, ret, exit_code, reported, txnMark, Args, Setup>>

\* i2c_transaction, lines 486-492
TxnStop ==
    /\ pc = "t_stop"
    /\ IF nread # 0 \/ nwrite # 0
       THEN LET g == execute([Machine EXCEPT !.outputBuffer = i2c_stop_bk(@)], 1)
            IN Commit(g) /\ call_rv' = g.erv
       ELSE UNCHANGED <<call_rv, Transport>>
    /\ ret' = 0
    /\ pc' = "t_done"
    /\ UNCHANGED <<i, exit_code, out, reported, txnMark, Args, Setup>>

\* main, lines 677-680: the transaction's result is dropped
MainReturn ==
    /\ pc = "t_done"
    /\ pc' = "exit"
    /\ exit_code' = 0
    /\ UNCHANGED <<i, ret, out, reported, txnMark, call_rv, Args, Setup, Transport>>

Next ==
    \/ MainArgs
    \/ Configure
    \/ ScanProbe
    \/ TxnWriteAddr
    \/ TxnWriteData
    \/ TxnReadAddr
    \/ TxnReadBytes
    \/ TxnStop
    \/ MainReturn

Spec == Init /\ [][Next]_vars

\* ------------------------------------------------------------------ checks
\* what happened on the bus since i2c_transaction was entered
TxnLog == SubSeq(bus, txnMark + 1, Len(bus))
Count(log, kind) == Cardinality({k \in DOMAIN log : log[k][1] = kind})
\* the positions the program is at inside i2c_transaction
TxnPcs == {"t_write", "t_data", "t_read", "t_readbytes", "t_stop"}
\* every transport call so far succeeded
Healthy == faultPc = "none"

\* C1: a transaction with nwrite > 0 or nread > 0 on a working transport
\* ends, whatever the slave acknowledged, with exactly one Stop on the bus,
\* and that Stop is the last thing on the bus when the function returns.
C1_EndsWithOneStop ==
    (pc = "t_done" /\ Healthy /\ (nread # 0 \/ nwrite # 0)) =>
        /\ Count(TxnLog, "P") = 1
        /\ TxnLog[Len(TxnLog)] = <<"P", 0>>

\* a payload byte was Nak'd, and the transaction returned after its Stop
C1_Witness ==
    /\ pc = "t_done" /\ Healthy /\ ret = SLAVE_NAK_DATA
    /\ Count(TxnLog, "P") = 1
    /\ TxnLog[Len(TxnLog)] = <<"P", 0>>
    /\ TxnLog[Len(TxnLog) - 1] = <<"A", 1>>

\* The write phase as the bus shows it when byte k is the first one Nak'd
\* (k = -1: the WRITE address, k >= 0: payload byte k): Start, the address,
\* the payload bytes 0..k, each with its acknowledge bit, Stop.
WriteNakLog(k) ==
    << <<"S", 0>>, <<"W", (2 * slave_addr) % 256>>,
       <<"A", IF k = -1 THEN 1 ELSE 0>> >>
    \o [n \in 1..(2 * (k + 1)) |->
           IF n % 2 = 1 THEN <<"W", wbuf[(n + 1) \div 2]>>
           ELSE <<"A", IF n = 2 * (k + 1) THEN 1 ELSE 0>>]
    \o << <<"P", 0>> >>

\* byte k of the write phase (k = -1: the address) is the first one Nak'd
FirstWriteNak(k) ==
    /\ Len(TxnLog) >= 3 + 2 * (k + 1)
    /\ TxnLog[3 + 2 * (k + 1)] = <<"A", 1>>
    /\ \A j \in -1..(k - 1) : TxnLog[3 + 2 * (j + 1)] = <<"A", 0>>

\* C2: in the write phase nothing is clocked out after a Nak: a Nak on the
\* WRITE address gives SlaveNakAddr and the transcript Start, address, Stop;
\* a Nak on payload byte k gives SlaveNakData and the transcript Start,
\* address, bytes 0..k, Stop.
C2_NothingAfterWriteNak ==
    (pc = "t_done" /\ Healthy /\ nwrite # 0) =>
        \A k \in -1..(nwrite - 1) :
            FirstWriteNak(k) =>
                /\ TxnLog = WriteNakLog(k)
                /\ ret = (IF k = -1 THEN SLAVE_NAK_ADDR ELSE SLAVE_NAK_DATA)

\* address 0x3C, payload 0x12 0x34, the second byte Nak'd
C2_Witness ==
    /\ pc = "t_done" /\ Healthy /\ ret = SLAVE_NAK_DATA
    /\ TxnLog = << <<"S", 0>>, <<"W", 120>>, <<"A", 0>>, <<"W", 18>>,
                   <<"A", 0>>, <<"W", 52>>, <<"A", 1>>, <<"P", 0>> >>

\* C3: a transport call that fails during the transaction makes
\* i2c_transaction report something else than SlaveNakAddr, SlaveNakData and
\* success.
C3_TransportFailureDistinct ==
    (pc = "t_done" /\ faultPc \in TxnPcs) =>
        ret \notin {SLAVE_NAK_ADDR, SLAVE_NAK_DATA, 0}

\* every byte of the write phase, the address included, was Acked
WriteAcked ==
    /\ Len(TxnLog) >= 3 + 2 * nwrite
    /\ \A j \in 0..nwrite : TxnLog[3 + 2 * j] = <<"A", 0>>

\* C4 as stated: a write-then-read transaction shows two Starts and one Stop.
C4_TwoStartsOneStop ==
    (pc = "t_done" /\ Healthy /\ nwrite # 0 /\ nread # 0) =>
        /\ Count(TxnLog, "S") = 2
        /\ Count(TxnLog, "P") = 1

\* C4 as amended: a write-then-read transaction whose WRITE address and
\* payload bytes are all Acked shows two Starts and one Stop, whatever the
\* payload length; one whose WRITE address or payload byte is Nak'd ends
\* after the write phase, with one Start and one Stop.
C4_StartsFollowWritePhase ==
    (pc = "t_done" /\ Healthy /\ nwrite # 0 /\ nread # 0) =>
        /\ Count(TxnLog, "S") = (IF WriteAcked THEN 2 ELSE 1)
        /\ Count(TxnLog, "P") = 1
        /\ WriteAcked => TxnLog[3 + 2 * nwrite + 1] = <<"S", 0>>

\* two payload bytes written, then one byte read, all of it Acked
C4_Witness ==
    /\ pc = "t_done" /\ Healthy /\ nwrite = 2 /\ nread = 1 /\ ret = 0
    /\ WriteAcked
    /\ Count(TxnLog, "S") = 2
    /\ Count(TxnLog, "P") = 1

\* the bytes the slave put on the bus during the transaction, in order
BytesRead ==
    LET r == SelectSeq(TxnLog, LAMBDA e : e[1] = "R") IN
    [k \in 1..Len(r) |-> r[k][2]]

\* C5: a read-only transaction for n >= 1 bytes that reports success has
\* delivered exactly the n bytes the slave returned, in order.
C5_SuccessDeliversAllBytes ==
    (pc = "t_done" /\ nwrite = 0 /\ nread >= 1 /\ ret = 0) =>
        /\ Len(out) = nread
        /\ out = BytesRead

\* The bus during a scan that has probed the addresses 0..n-1: for each,
\* Start, the READ address, the acknowledge bit of its slave, Stop.
ScanLog(n) ==
    [k \in 1..(4 * n) |->
        LET a == (k - 1) \div 4 IN
        CASE k % 4 = 1 -> <<"S", 0>>
          [] k % 4 = 2 -> <<"W", 2 * a + 1>>
          [] k % 4 = 3 -> <<"A", IF a \in ackers THEN 0 ELSE 1>>
          [] OTHER -> <<"P", 0>>]

\* the addresses below n that a slave answers, ascending
Responders(n) ==
    SelectSeq([k \in 1..n |-> k - 1], LAMBDA a : a \in ackers)

\* C6: the scan reports exactly the probed addresses whose READ address was
\* Acked; a Nak neither is an error nor stops the scan; every probe is Start,
\* READ address, Stop, without a data phase.
C6_ScanReportsAckers ==
    (pc = "scan" /\ Healthy) =>
        /\ bus = ScanLog(i)
        /\ reported = Responders(i)

\* the scan of a bus where only 0x3C answers has ended and reported 0x3C
C6_Witness ==
    /\ pc = "scan" /\ Healthy /\ i = ScanLimit /\ ackers = {60}
    /\ reported = <<60>>
    /\ bus = ScanLog(i)

\* the addresses the scan probed, in order: the address bytes, shifted back
Probed ==
    LET w == SelectSeq(bus, LAMBDA e : e[1] = "W") IN
    [k \in 1..Len(w) |-> w[k][2] \div 2]

\* the scan loop has ended and the transaction has not begun
ScanEnded == i2c_scan /\ pc = "t_write" /\ Healthy

\* C7 as stated: the scan probes 0x00 through 0x7F, each once, ascending.
C7_ProbesThrough7F == ScanEnded => Probed = [k \in 1..128 |-> k - 1]

\* C7 as amended: the scan probes every address from 0x00 through 0x7E
\* inclusive, each exactly once and in ascending order; 0x7F is not probed.
C7_ProbesThrough7E == ScanEnded => Probed = [k \in 1..127 |-> k - 1]

\* the scan has ended after its last probe, of 0x7E
C7_Witness == ScanEnded /\ Len(Probed) = 127 /\ Probed[Len(Probed)] = 126

\* the transaction has clocked out an address byte
AddressSent == Len(TxnLog) >= 2 /\ TxnLog[2][1] = "W"

\* C8: the read address byte is (a<<1)|1 and the write address byte (a<<1),
\* and the address a transaction uses always has its top bit masked off, so
\* the byte on the wire derives from a value in 0x00..0x7F.
C8_AddressMasked ==
    /\ \A a \in 0..127 : READ(a) = 2 * a + 1 /\ WRITE(a) = 2 * a
    /\ (pc \in TxnPcs \cup {"t_done"} /\ AddressSent) =>
          /\ slave_addr \in 0..127
          /\ TxnLog[2][2] \in {2 * slave_addr, 2 * slave_addr + 1}

\* C9: the command stream read_bytes(n) hands to the transport carries, for
\* byte i, the acknowledge bit 0x00 when i < n-1 and 0x80 when i = n-1.
C9_AckPatternSent ==
    (pc = "t_stop" /\ nread >= 1) =>
        \A k \in 0..(nread - 1) :
            /\ Len(lastWrite) >= 6 * k + 6
            /\ lastWrite[6 * k + 4] = MSB_FALLING_EDGE_CLOCK_BIT_OUT
            /\ lastWrite[6 * k + 6] = (IF k = nread - 1 THEN 128 ELSE 0)

\* C10: a transaction asked to read n <= 0 bytes does not report success once
\* read_bytes has refused the length.
C10_LengthErrorReturned ==
    /\ (pc = "t_stop" /\ nread < 0) =>
          \* read_bytes queued nothing and called the transport not at all:
          \* the latest transport call is still the one of the address phase
          outputBuffer = << >> /\ Len(lastWrite) = 3
    /\ (pc = "t_done" /\ nread < 0 /\ Len(TxnLog) >= 2
            /\ TxnLog[Len(TxnLog) - 1] = <<"A", 0>>) => ret # 0

\* C11: no command stream from which append dropped a byte is written to
\* the transport: the stream read_bytes(n) writes is complete, n groups of
\* six bytes and the closing SEND_IMMEDIATE, for every read length n >= 1.
C11_NoTruncatedStream ==
    (pc = "t_stop" /\ nread >= 1) =>
        /\ Len(lastWrite) = 6 * nread + 1
        /\ lastWrite[Len(lastWrite)] = SEND_IMMEDIATE

\* ftdi_configure_i2c has returned 0 and every transport call succeeded
Configured == pc \in {"scan", "t_write"} /\ Healthy

\* C12: once ftdi_configure_i2c has succeeded, and before any transaction,
\* the engine has received DISABLE_CLK_DIV_5, DISABLE_ADAPTIVE_CLK,
\* ENABLE_3_PHASE_CLK, SET_CLK_DIV with the divisor, SET_BITS_LOW_BYTE that
\* leaves SDA and SCL high, OPEN_DRAIN for SDA and SCL, and DISABLE_LOOPBACK.
C12_AllConfigCommandsSent ==
    Configured =>
        /\ <<DISABLE_CLK_DIV_5, 0, 0>> \in dev.cfg
        /\ <<DISABLE_ADAPTIVE_CLK, 0, 0>> \in dev.cfg
        /\ <<ENABLE_3_PHASE_CLK, 0, 0>> \in dev.cfg
        /\ \E lo, hi \in 0..255 : <<SET_CLK_DIV, lo, hi>> \in dev.cfg
        /\ dev.sda = 1 /\ dev.scl = 1
        /\ <<OPEN_DRAIN, BitOr(SDA_OUT, SCL), 0>> \in dev.cfg
        /\ <<DISABLE_LOOPBACK, 0, 0>> \in dev.cfg

\* ftdi_configure_i2c has just run and one of its FT_Write calls failed
ConfigWriteFailed ==
    /\ faultPc = "configure"
    /\ \E k \in DOMAIN calls : calls[k][1] = "FT_Write" /\ calls[k][3] # FT_OK

\* C13: when a transport write of the configuration commands has failed the
\* program exits with a non-zero status and no Start is put on the bus; it
\* also exits non-zero when there is neither a slave address nor a scan.
C13_ConfigFailureIsFatal ==
    /\ ConfigWriteFailed =>
          /\ pc = "exit" /\ exit_code # 0
          /\ Count(bus, "S") = 0
    /\ (pc = "exit" /\ slave_addr < 0 /\ ~i2c_scan) => exit_code # 0

\* the SET_CLK_DIV commands the engine has received, with their operands in
\* the order they came on the wire
DivisorsSent == {e \in dev.cfg : e[1] = SET_CLK_DIV}

\* C14: the divisor is 0x012B for 100 kHz, 0x004A for 400 kHz and 0x012B for
\* every other speed, and it follows SET_CLK_DIV as two bytes, low byte first.
C14_DivisorLowByteFirst ==
    Configured =>
        LET d == CASE speed_khz = 100 -> 299
                   [] speed_khz = 400 -> 74
                   [] OTHER -> 299
        IN DivisorsSent = {<<SET_CLK_DIV, d % 256, d \div 256>>}

\* configured for 400 kHz: the engine received 0x86 0x4A 0x00
C14_Witness ==
    Configured /\ speed_khz = 400 /\ DivisorsSent = {<<SET_CLK_DIV, 74, 0>>}

\* ------------------------------------------- start and stop on their own
\* i2c_start_bk and i2c_stop_bk with their repeat factor as a parameter: the
\* sequences are built with every factor from 1 to MaxRepeat (the source's
\* is 40), handed to execute and run by the engine from the line states the
\* program calls them in: start on the idle bus or after a byte (SCL low,
\* SDA released), stop after a start or after a byte. One of the two writes
\* may fail. A last execute finds the command buffer empty.
LineInit ==
    \E r \in 1..MaxRepeat, first \in {"l_start", "l_stop"}, s \in {0, 1},
       f \in 0..2 :
        /\ pc = first
        /\ repeat = r
        /\ failAt = f
        /\ dev = [inq |-> << >>, rxq |-> << >>, cfg |-> {}, nIn |-> 0,
                  sda |-> IF first = "l_start" THEN 1 ELSE s,
                  scl |-> IF first = "l_start" THEN s ELSE 0]
        /\ i = 0
        /\ slave_addr = -1
        /\ nread = 0
        /\ wbuf = << >>
        /\ i2c_scan = FALSE
        /\ speed_khz = 100
        /\ outputBuffer = << >>
        /\ inputBuffer = << >>
        /\ inputRead = 0
        /\ ftStatus = FT_OK
        /\ ret = 1
        /\ exit_code = 0
        /\ out = << >>
        /\ reported = << >>
        /\ bus = << >>
        /\ lastWrite = << >>
        /\ calls = << >>
        /\ call_rv = 0
        /\ nOps = 0
        /\ txnMark = 0
        /\ faultPc = "none"
        /\ setup_fault = 0
        /\ ackers = {}

\* i2c_start_bk with the factor repeat, then execute
LineStart ==
    /\ pc = "l_start"
    /\ LET g == execute([Machine EXCEPT
                  !.outputBuffer = append_seq(@, i2c_start_cmds(repeat))], 1)
       IN Commit(g) /\ call_rv' = g.erv
    /\ pc' = "l_stop"
    /\ txnMark' = 1
    /\ UNCHANGED <<i, ret, exit_code, out, reported, Args, Setup>>

\* i2c_stop_bk with the factor repeat, then execute
LineStop ==
    /\ pc = "l_stop"
    /\ LET g == execute([Machine EXCEPT
                  !.outputBuffer = append_seq(@, i2c_stop_cmds(repeat))], 1)
       IN Commit(g) /\ call_rv' = g.erv
    /\ pc' = "l_done"
    /\ UNCHANGED <<i, ret, exit_code, out, reported, txnMark, Args, Setup>>

\* execute once more: nothing is queued
LineExecute ==
    /\ pc = "l_done"
    /\ LET g == execute(Machine, 1)
       IN Commit(g) /\ call_rv' = g.erv
    /\ pc' = "l_end"
    /\ UNCHANGED <<i, ret, exit_code, out, reported, txnMark, Args, Setup>>

LineNext == LineStart \/ LineStop \/ LineExecute

LineSpec == LineInit /\ [][LineNext]_vars

\* the SET_BITS_LOW_BYTE commands of the latest write all drive SCL
SclDriven ==
    \A k \in 1..Len(lastWrite) :
        k % 3 = 0 => BitAt(lastWrite[k], 0) = 1

\* C15: for every repeat factor, start makes SDA change once while SCL is
\* high, a fall; stop makes SDA change once while SCL is high, a rise; SCL
\* is driven low or high throughout; after start then stop both lines are
\* high. (txnMark = 1 tells that start has run.)
C15_OneEdgePerCondition ==
    /\ (pc = "l_stop" /\ txnMark = 1 /\ Healthy) =>
          /\ bus = << <<"S", 0>> >>
          /\ dev.sda = 0 /\ dev.scl = 0
          /\ Len(lastWrite) = 9 * repeat /\ SclDriven
    /\ (pc = "l_done" /\ Healthy) =>
          /\ bus = (IF txnMark = 1 THEN << <<"S", 0>>, <<"P", 0>> >>
                    ELSE << <<"P", 0>> >>)
          /\ dev.sda = 1 /\ dev.scl = 1
          /\ Len(lastWrite) = 9 * repeat /\ SclDriven

\* start then stop with the factor 1: one fall, one rise, lines back high
C15_Witness ==
    /\ pc = "l_done" /\ txnMark = 1 /\ repeat = 1 /\ Healthy
    /\ bus = << <<"S", 0>>, <<"P", 0>> >>
    /\ dev.sda = 1 /\ dev.scl = 1

\* --------------------------------------------------- checks, second part
\* the latest step was i2c_send_bk of a payload byte: it was Acked and the
\* loop goes on, or it was not and the transaction has returned
PayloadByteSent ==
    \/ pc = "t_data" /\ i > 0
    \/ pc = "t_done" /\ ret = SLAVE_NAK_DATA

\* C16: i2c_send_bk writes, as one stream, the 8-bit clock-out of the byte,
\* the SDA release, the 1-bit clock-in and SEND_IMMEDIATE, and then reads
\* one byte; it returns the I/O error when the read fails or yields no byte,
\* else Nak when the low bit of the response is 1, else Ack; the command
\* that drives SDA high again is written exactly when it returns Ack,
\* otherwise the next write is the caller's Stop and nothing else.
C16_SendByteRoundTrip ==
    PayloadByteSent =>
        LET data == IF pc = "t_data" THEN wbuf[i] ELSE wbuf[i + 1]
            ioerr == calls[2][3] # FT_OK \/ inputRead = 0
        IN /\ Len(calls) = 3
           /\ calls[1][1] = "FT_Write"
           /\ calls[1][2] = <<MSB_FALLING_EDGE_CLOCK_BYTE_OUT, 0, 0, data,
                              SET_BITS_LOW_BYTE, SDA_OUT, BitOr(SDA_OUT, SCL),
                              MSB_RISING_EDGE_CLOCK_BIT_IN, 0, SEND_IMMEDIATE>>
           /\ calls[2][1] = "FT_Read" /\ calls[2][2] = <<1>>
           /\ call_rv = (IF ioerr THEN -2
                         ELSE IF inputBuffer[1] % 2 = 1 THEN -1 ELSE 0)
           /\ calls[3][1] = "FT_Write"
           /\ calls[3][2] = (IF call_rv = 0
                             THEN <<SET_BITS_LOW_BYTE, SDA_OUT, BitOr(SDA_OUT, SCL)>>
                             ELSE stop_cmds)

\* the first payload byte was answered 0xFE: an Ack, and SDA was driven high
C16_Witness ==
    /\ pc = "t_data" /\ i = 1 /\ Healthy
    /\ inputRead = 1 /\ inputBuffer[1] = 254
    /\ call_rv = 0
    /\ Len(calls) = 3
    /\ calls[3][2] = <<SET_BITS_LOW_BYTE, SDA_OUT, BitOr(SDA_OUT, SCL)>>

\* the stream of read_bytes(n): for each byte the byte-in command and the
\* acknowledge-bit command, the last one with 0x80; then SEND_IMMEDIATE
ReadStream(n) ==
    [k \in 1..(6 * n + 1) |->
        IF k = 6 * n + 1 THEN SEND_IMMEDIATE
        ELSE LET j == (k - 1) % 6 IN
             CASE j = 0 -> MSB_FALLING_EDGE_CLOCK_BYTE_IN
               [] j = 3 -> MSB_FALLING_EDGE_CLOCK_BIT_OUT
               [] j = 5 -> (IF (k - 1) \div 6 = n - 1 THEN 128 ELSE 0)
               [] OTHER -> 0]

\* C17: read_bytes(n) makes exactly two transport calls: one write carrying
\* all n command groups and SEND_IMMEDIATE, then one read asking for exactly
\* n bytes, as many as byte-in commands were written.
C17_OneWriteOneRead ==
    (pc = "t_stop" /\ nread >= 1) =>
        /\ Len(calls) = 2
        /\ calls[1][1] = "FT_Write" /\ calls[1][2] = ReadStream(nread)
        /\ calls[2][1] = "FT_Read" /\ calls[2][2] = <<nread>>

\* C18: when the address and every payload byte of the write phase were
\* Acked and a read follows, the next thing on the bus after the last
\* payload acknowledge is the repeated Start (no Stop before it), then the
\* READ address; when that address is Nak'd the transaction ends there with
\* a Stop, without any byte read, and returns SLAVE_NAK_ADDR.
C18_RepeatedStartThenReadAddr ==
    (pc = "t_done" /\ Healthy /\ nwrite # 0 /\ nread # 0 /\ WriteAcked) =>
        LET n == 3 + 2 * nwrite IN
        /\ Len(TxnLog) >= n + 4
        /\ TxnLog[n + 1] = <<"S", 0>>
        /\ TxnLog[n + 2] = <<"W", 2 * slave_addr + 1>>
        /\ TxnLog[n + 3][1] = "A"
        /\ TxnLog[n + 3] = <<"A", 1>> =>
              /\ TxnLog[n + 4] = <<"P", 0>>
              /\ Len(TxnLog) = n + 4
              /\ Count(TxnLog, "R") = 0
              /\ ret = SLAVE_NAK_ADDR

\* 0x3C Acked its WRITE address and the byte 0x12, then left its READ
\* address unanswered
C18_Witness ==
    /\ pc = "t_done" /\ Healthy /\ nwrite = 1 /\ nread # 0
    /\ ret = SLAVE_NAK_ADDR
    /\ TxnLog = << <<"S", 0>>, <<"W", 120>>, <<"A", 0>>, <<"W", 18>>,
                   <<"A", 0>>, <<"S", 0>>, <<"W", 121>>, <<"A", 1>>,
                   <<"P", 0>> >>

\* the one transport call of a step that executed the bytes q: a write of q
\* with the status st
OneWrite(q, st) == calls = << <<"FT_Write", q, st>> >>

\* the status of the k-th transport call of a run
StatusOf(k) == IF failAt = k THEN FT_IO_ERROR ELSE FT_OK

\* C19: execute hands the queued bytes, in order, to one FT_Write, reads
\* nothing, returns the write's status and leaves the command buffer empty
\* whether the write succeeded or failed; on an empty buffer it makes no
\* transport call and returns 0.
C19_ExecuteWritesOnceAndClears ==
    /\ outputBuffer = << >>
    /\ (pc = "l_stop" /\ txnMark = 1) =>
          /\ OneWrite(i2c_start_cmds(repeat), StatusOf(1))
          /\ call_rv = StatusOf(1)
    /\ pc = "l_done" =>
          /\ OneWrite(i2c_stop_cmds(repeat), StatusOf(nOps))
          /\ call_rv = StatusOf(nOps)
    /\ pc = "l_end" =>
          /\ calls = << >>
          /\ call_rv = 0
          /\ nOps = txnMark + 1

\* the write of the stop sequence failed, and the buffer is empty again
C19_Witness ==
    /\ pc = "l_done" /\ faultPc = "l_stop"
    /\ outputBuffer = << >>
    /\ call_rv = FT_IO_ERROR
    /\ OneWrite(i2c_stop_cmds(repeat), FT_IO_ERROR)

\* C20: a run in which FT_GetQueueStatus is the one open/setup call that
\* fails does not end in the exit ftdi_configure_i2c's failure leads to.
C20_StatusReadFailureIgnored ==
    setup_fault = GetQueueStatusCall => ~(pc = "exit" /\ exit_code # 0)

\* C20 as amended: the result of the drain read is ignored, the result of
\* the status read is not: when FT_GetQueueStatus fails the drain is skipped,
\* no command is written, ftdi_configure_i2c returns -1 and the program
\* exits with status 1; a drain read that fails never is what makes
\* ftdi_configure_i2c fail.
C20_StatusReadFailureFatal ==
    /\ setup_fault = GetQueueStatusCall =>
          /\ pc = "exit" /\ exit_code = 1 /\ call_rv = -1
          /\ calls = << >>
    /\ (pc = "exit" /\ exit_code = 1 /\ Len(calls) = 1
            /\ calls[1][1] = "FT_Read" /\ calls[1][3] # FT_OK) =>
          setup_fault # 0

\* FT_GetQueueStatus alone failed and the program has exited with status 1
C20_Witness ==
    /\ setup_fault = GetQueueStatusCall
    /\ pc = "exit" /\ exit_code = 1 /\ call_rv = -1
    /\ ftStatus # FT_OK

\* the smaller of two lengths
Least(a, b) == IF a < b THEN a ELSE b

\* C21: the command buffer never holds more than 1023 bytes, between the
\* steps and when it is handed to FT_Write; the buffer read_bytes(n) hands
\* over is the stream of n groups cut at 1023 bytes, so the appends made at
\* length 1023 changed neither its length nor its contents; and append on
\* such a full buffer returns -1 and the buffer as it was.
C21_BufferNeverFull ==
    /\ Len(outputBuffer) <= BufSize - 1
    /\ Len(lastWrite) <= BufSize - 1
    /\ \A k \in DOMAIN calls :
          calls[k][1] = "FT_Write" => Len(calls[k][2]) <= BufSize - 1
    /\ (pc = "t_stop" /\ nread >= 1) =>
          /\ lastWrite = SubSeq(ReadStream(nread), 1,
                                Least(6 * nread + 1, BufSize - 1))
          /\ Len(lastWrite) = BufSize - 1 =>
                /\ append(lastWrite, SEND_IMMEDIATE) = lastWrite
                /\ append_rv(lastWrite, SEND_IMMEDIATE) = -1

\* read_bytes(171) has run: the buffer it handed over held 1023 bytes, the
\* last four appends refused
C21_Witness ==
    /\ pc = "t_stop" /\ nread = MaxFit + 1
    /\ Len(lastWrite) = BufSize - 1
    /\ 6 * nread + 1 = BufSize - 1 + 4
    /\ append_rv(lastWrite, SEND_IMMEDIATE) = -1

====
